---------------------------- MODULE Spec2Model ----------------------------
(***************************************************************************)
(* Model of the lantern extendedness filter:                               *)
(*   src/filters/extendedness.py               (inline thresholds)         *)
(*   src/src/lantern/filters/extendedness.py   (the `thresholds` dict)     *)
(*                                                                         *)
(* Both files hold the same two functions, _ellipticity and evaluate, and  *)
(* differ only in the threshold values.  The alert properties are a Python *)
(* dict, so a key may be absent and a value may be of any Python type; the *)
(* values are modelled as tagged records and the operations on them follow *)
(* Python's rules (TypeError, KeyError, ZeroDivisionError, truthiness,     *)
(* short-circuit `and`/`or`).                                              *)
(*                                                                         *)
(* Numbers are exact: a number is a reduced fraction p/q, and the result   *)
(* of math.sqrt is kept as a signed square root of a fraction, so every    *)
(* comparison against a threshold is decided exactly.  The rounding of     *)
(* IEEE doubles, NaN and infinities are outside the model.                 *)
(***************************************************************************)
EXTENDS Integers, Sequences, FiniteSets

VARIABLES
    props,      \* the dict handed to evaluate
    moments,    \* the arguments <<ixx, iyy, ixy>> handed to _ellipticity
    callee,     \* the function the caller ran, "" before the call
    pc,         \* "start" before the call; afterwards the statement that left it
    result      \* the value returned, or the exception raised

vars == <<props, moments, callee, pc, result>>

-----------------------------------------------------------------------------
(* Python values *)

Abs(n) == IF n < 0 THEN -n ELSE n

Sign(n) == IF n > 0 THEN 1 ELSE IF n < 0 THEN -1 ELSE 0

RECURSIVE Gcd(_, _)
Gcd(a, b) == IF b = 0 THEN a ELSE Gcd(b, a % b)

\* the number p/q (q # 0), reduced, with a positive denominator
Rat(p, q) ==
    LET g == Gcd(Abs(p), Abs(q))
    IN  [t |-> "num", p |-> (Sign(q) * p) \div g, q |-> Abs(q) \div g]

Int2Num(n) == Rat(n, 1)

Bool(b) == [t |-> "bool", b |-> b]

Str(s) == [t |-> "str", s |-> s]

PyNone == [t |-> "none"]

\* a non-empty list, the one unhashable value the model hands in
PyList == [t |-> "list"]

\* a raised exception, propagated through every expression it reaches
Exc(e) == [t |-> "exc", e |-> e]

IsExc(x) == x.t = "exc"

\* bool is a subclass of int: True and False take part in arithmetic as 1 and 0
IsNumber(x) == x.t \in {"num", "bool"}

AsNum(x) == IF x.t = "bool" THEN Int2Num(IF x.b THEN 1 ELSE 0) ELSE x

\* bool(x)
Truthy(x) ==
    CASE x.t = "num"  -> x.p # 0
      [] x.t = "bool" -> x.b
      [] x.t = "str"  -> x.s # ""
      [] x.t = "none" -> FALSE
      [] x.t = "list" -> TRUE
      [] x.t = "root" -> x.sgn # 0
      [] x.t = "diff" -> TRUE

-----------------------------------------------------------------------------
(* exact arithmetic on fractions *)

RLess(a, b) == a.p * b.q < b.p * a.q

RLeq(a, b) == a.p * b.q <= b.p * a.q

RAdd(a, b) == Rat(a.p * b.q + b.p * a.q, a.q * b.q)

RSub(a, b) == Rat(a.p * b.q - b.p * a.q, a.q * b.q)

RMul(a, b) == Rat(a.p * b.p, a.q * b.q)

\* a / b for b # 0
RDiv(a, b) == Rat(a.p * b.q, a.q * b.p)

\* the integer square root of n >= 0
ISqrt(n) == CHOOSE k \in 0..n : k * k <= n /\ n < (k + 1) * (k + 1)

IsSquare(n) == ISqrt(n) * ISqrt(n) = n

\* sgn * sqrt(r) for a fraction r >= 0 and sgn in {-1, 1}: a fraction when r is
\* the square of one, and otherwise the root itself
Root(sgn, r) ==
    IF IsSquare(r.p) /\ IsSquare(r.q)
    THEN Rat(sgn * ISqrt(r.p), ISqrt(r.q))
    ELSE [t |-> "root", sgn |-> sgn, r |-> r]

\* a real value x as the pair <<s, m>> with x = s * sqrt(m)
AsRoot(x) ==
    IF x.t = "root" THEN <<x.sgn, x.r>> ELSE <<Sign(x.p), RMul(x, x)>>

\* u*sqrt(X) + v*sqrt(Y) > 1 for fractions X, Y >= 0 and u, v in {-1, 0, 1},
\* decided by squaring
SumOfRootsExceedsOne(u, X, v, Y) ==
    LET one == Int2Num(1)
        four == Int2Num(4)
        \* sqrt(A) > 1 + sqrt(B)
        Exceeds(A, B) ==
            LET gap == RSub(RSub(A, one), B)
            IN  gap.p > 0 /\ RLess(RMul(four, B), RMul(gap, gap))
    IN  CASE u <= 0 /\ v <= 0 -> FALSE
          [] u > 0 /\ v > 0 ->
                LET rest == RSub(RSub(one, X), Y)
                IN  rest.p < 0 \/ RLess(RMul(rest, rest), RMul(four, RMul(X, Y)))
          [] u > 0 /\ v <= 0 -> Exceeds(X, IF v < 0 THEN Y ELSE Int2Num(0))
          [] u <= 0 /\ v > 0 -> Exceeds(Y, IF u < 0 THEN X ELSE Int2Num(0))

\* x > thr for a real x (fraction, root or difference of two) and a fraction thr > 0
Greater(x, thr) ==
    IF x.t = "num" THEN RLess(thr, x)
    ELSE
        LET a == IF x.t = "diff" THEN AsRoot(x.a) ELSE AsRoot(x)
            b == IF x.t = "diff" THEN AsRoot(x.b) ELSE <<0, Int2Num(0)>>
            t2 == RMul(thr, thr)
        IN  SumOfRootsExceedsOne(a[1], RDiv(a[2], t2), -b[1], RDiv(b[2], t2))

-----------------------------------------------------------------------------
(* Python operators on values *)

\* x + y: numbers add, two strings and two lists concatenate
Add(x, y) ==
    CASE IsExc(x) -> x
      [] IsExc(y) -> y
      [] IsNumber(x) /\ IsNumber(y) -> RAdd(AsNum(x), AsNum(y))
      [] x.t = "str" /\ y.t = "str" -> Str(x.s \o y.s)
      [] x.t = "list" /\ y.t = "list" -> PyList
      [] OTHER -> Exc("TypeError")

\* x - y: numbers, and the two floats math.sqrt gave
Sub(x, y) ==
    CASE IsExc(x) -> x
      [] IsExc(y) -> y
      [] IsNumber(x) /\ IsNumber(y) -> RSub(AsNum(x), AsNum(y))
      [] x.t = "root" /\ IsNumber(y) /\ AsNum(y).p = 0 -> x
      [] IsNumber(x) /\ AsNum(x).p = 0 /\ y.t = "root" -> [y EXCEPT !.sgn = -y.sgn]
      [] x.t \in {"num", "root"} /\ y.t \in {"num", "root"} ->
            IF x.t = y.t /\ x = y THEN Int2Num(0) ELSE [t |-> "diff", a |-> x, b |-> y]
      [] OTHER -> Exc("TypeError")

\* x ** 2
Pow2(x) ==
    CASE IsExc(x) -> x
      [] IsNumber(x) -> RMul(AsNum(x), AsNum(x))
      [] OTHER -> Exc("TypeError")

\* 4.0 * x
Times4(x) ==
    CASE IsExc(x) -> x
      [] IsNumber(x) -> RMul(Int2Num(4), AsNum(x))
      [] OTHER -> Exc("TypeError")

\* math.sqrt(x)
Sqrt(x) ==
    CASE IsExc(x) -> x
      [] IsNumber(x) -> IF AsNum(x).p < 0 THEN Exc("ValueError") ELSE Root(1, AsNum(x))
      [] OTHER -> Exc("TypeError")

\* x / y
Div(x, y) ==
    CASE IsExc(x) -> x
      [] IsExc(y) -> y
      [] IsNumber(x) /\ IsNumber(y) ->
            IF AsNum(y).p = 0 THEN Exc("ZeroDivisionError") ELSE RDiv(AsNum(x), AsNum(y))
      [] x.t = "root" /\ IsNumber(y) ->
            IF AsNum(y).p = 0 THEN Exc("ZeroDivisionError")
            ELSE Root(x.sgn * Sign(AsNum(y).p), RDiv(x.r, RMul(AsNum(y), AsNum(y))))
      [] OTHER -> Exc("TypeError")

\* x == 0.0: never raises, and only a number can be equal to 0.0
EqZero(x) == IsNumber(x) /\ AsNum(x).p = 0

\* x > 0.0, x < 0.0, x <= thr and x >= thr: a TypeError unless x is a number
GtZero(x) == IF IsNumber(x) THEN Bool(AsNum(x).p > 0) ELSE Exc("TypeError")

LtZero(x) == IF IsNumber(x) THEN Bool(AsNum(x).p < 0) ELSE Exc("TypeError")

Le(x, thr) ==
    CASE IsExc(x) -> x
      [] IsNumber(x) -> Bool(RLeq(AsNum(x), thr))
      [] x.t \in {"root", "diff"} -> Bool(~Greater(x, thr))
      [] OTHER -> Exc("TypeError")

Ge(x, thr) ==
    CASE IsExc(x) -> x
      [] IsNumber(x) -> Bool(RLeq(thr, AsNum(x)))
      [] OTHER -> Exc("TypeError")

\* a and b: b is not evaluated when a is false
AndThen(a, b) == IF IsExc(a) THEN a ELSE IF ~Truthy(a) THEN a ELSE b

\* a or b: b is not evaluated when a is true
OrElse(a, b) == IF IsExc(a) THEN a ELSE IF Truthy(a) THEN a ELSE b

\* d[k]
GetItem(d, k) == IF k \in DOMAIN d THEN d[k] ELSE Exc("KeyError")

\* the first exception of a sequence of evaluated expressions, or PyNone
RECURSIVE FirstExc(_)
FirstExc(xs) ==
    IF xs = <<>> THEN PyNone
    ELSE IF IsExc(Head(xs)) THEN Head(xs) ELSE FirstExc(Tail(xs))

\* any(xs)
PyAny(xs) == \E i \in 1..Len(xs) : Truthy(xs[i])

-----------------------------------------------------------------------------
(* the thresholds of the two files *)

\* src/filters/extendedness.py: the per-band caps on the template flux
BAND_FLUX_THRESHOLDS ==
    [u |-> Rat(1782867, 10), g |-> Rat(2551314, 10), r |-> Rat(6571112, 10),
     i |-> Rat(7430530, 10), z |-> Rat(9635851, 10), y |-> Rat(10132907, 10)]

\* src/filters/extendedness.py: the thresholds written into evaluate itself
InlineThresholds ==
    [snr |-> Rat(15, 1), flux_ext |-> Rat(1259, 1000), i_ext |-> Rat(15, 10),
     ellip_ext |-> Rat(2, 10), temp_sci_flux_ratio |-> Rat(25, 100),
     flux_caps |-> BAND_FLUX_THRESHOLDS]

\* src/src/lantern/filters/extendedness.py: the module's thresholds dict
thresholds ==
    [snr |-> Rat(5, 1), flux_ext |-> Rat(35, 100), i_ext |-> Rat(5, 10),
     ellip_ext |-> Rat(2, 10), temp_sci_flux_ratio |-> Rat(85, 100),
     flux_caps |->
        [u |-> Rat(886447, 10), g |-> Rat(1180742, 10), r |-> Rat(1668725, 10),
         i |-> Rat(2030909, 10), z |-> Rat(2572540, 10), y |-> Rat(2647940, 10)]]

-----------------------------------------------------------------------------
(* the two functions *)

\* the keys evaluate reads first, in the order it reads them (the prefix
\* lsst_diaSource_ of every key is left out)
ReadKeys ==
    <<"psfFlux", "apFlux", "scienceFlux", "templateFlux", "snr", "band",
      "ixx", "iyy", "ixy", "ixxPSF", "iyyPSF", "ixyPSF">>

\* the quality flags, in the order of the list handed to any()
FlagKeys ==
    <<"apFlux_flag", "psfFlux_flag", "pixelFlags_cr", "pixelFlags_bad",
      "pixelFlags_nodata", "pixelFlags_interpolated", "pixelFlags_saturated",
      "pixelFlags_suspect">>

FlagSet == {FlagKeys[i] : i \in 1..Len(FlagKeys)}

Keys == {ReadKeys[i] : i \in 1..Len(ReadKeys)} \cup FlagSet

\* a faulty variant: the division without the guard on the denominator
ellipticityUnguarded(ixx, iyy, ixy) ==
    Div(Sqrt(Add(Pow2(Sub(ixx, iyy)), Times4(Pow2(ixy)))), Add(ixx, iyy))

ellipticity(ixx, iyy, ixy) ==
    LET denom == Add(ixx, iyy)
    IN  IF IsExc(denom) THEN denom
        ELSE IF EqZero(denom) THEN Int2Num(0)
        ELSE Div(Sqrt(Add(Pow2(Sub(ixx, iyy)), Times4(Pow2(ixy)))), denom)

\* a faulty variant: >= 0.0 in place of > 0.0
all_pos_or_zero(psf_flux, ap_flux, science_flux) ==
    LET GeZero(x) == IF IsNumber(x) THEN Bool(AsNum(x).p >= 0) ELSE Exc("TypeError")
    IN  AndThen(GeZero(psf_flux), AndThen(GeZero(ap_flux), GeZero(science_flux)))

all_pos(psf_flux, ap_flux, science_flux) ==
    AndThen(GtZero(psf_flux), AndThen(GtZero(ap_flux), GtZero(science_flux)))

\* a faulty variant: `or` in place of `and`
any_neg(psf_flux, ap_flux, science_flux) ==
    OrElse(LtZero(psf_flux), OrElse(LtZero(ap_flux), LtZero(science_flux)))

all_neg(psf_flux, ap_flux, science_flux) ==
    AndThen(LtZero(psf_flux), AndThen(LtZero(ap_flux), LtZero(science_flux)))

\* a faulty variant: the last flag left out of the list
QualityCutsShort(p, th, pos, neg) ==
    [i \in 1..(Len(FlagKeys) - 1) |-> GetItem(p, FlagKeys[i])]
        \o <<Le(p.snr, th.snr), Bool(~(Truthy(pos) \/ Truthy(neg)))>>

\* a faulty variant: props.get(flag) in place of props[flag]
QualityCutsGet(p, th, pos, neg) ==
    [i \in 1..Len(FlagKeys) |-> IF FlagKeys[i] \in DOMAIN p THEN p[FlagKeys[i]] ELSE PyNone]
        \o <<Le(p.snr, th.snr), Bool(~(Truthy(pos) \/ Truthy(neg)))>>

\* the list handed to any(): the eight flags, the snr floor and the flux signs
QualityCuts(p, th, pos, neg) ==
    [i \in 1..Len(FlagKeys) |-> GetItem(p, FlagKeys[i])]
        \o <<Le(p.snr, th.snr), Bool(~(Truthy(pos) \/ Truthy(neg)))>>

\* if psf_flux == 0.0 or science_flux == 0.0
ZeroFlux(psf_flux, science_flux) == EqZero(psf_flux) \/ EqZero(science_flux)

\* if flux_ext <= ... or i_ext <= ... or ellip_ext <= ...
ExtendednessCut(flux_ext, i_ext, ellip_ext, th) ==
    OrElse(Le(flux_ext, th.flux_ext),
           OrElse(Le(i_ext, th.i_ext), Le(ellip_ext, th.ellip_ext)))

\* if temp_sci_flux_ratio <= ...
MovingObjectCut(temp_sci_flux_ratio, th) == Le(temp_sci_flux_ratio, th.temp_sci_flux_ratio)

\* a faulty variant: flux_caps[band] in place of flux_caps.get(band)
BandThresholdSubscript(band, th) ==
    CASE band.t = "list" -> Exc("TypeError")
      [] band.t = "str" /\ band.s \in DOMAIN th.flux_caps -> th.flux_caps[band.s]
      [] OTHER -> Exc("KeyError")

\* flux_caps.get(band): None for a key the dict does not hold, and a TypeError
\* for a key that cannot be hashed
BandThreshold(band, th) ==
    CASE band.t = "list" -> Exc("TypeError")
      [] band.t = "str" /\ band.s \in DOMAIN th.flux_caps -> th.flux_caps[band.s]
      [] OTHER -> PyNone

\* a faulty variant: > in place of >=
BandCapCutStrict(threshold, template_flux) ==
    CASE threshold.t = "none" -> Bool(TRUE)
      [] IsNumber(template_flux) -> Bool(RLess(threshold, AsNum(template_flux)))
      [] OTHER -> Exc("TypeError")

\* if threshold is None or template_flux >= threshold
BandCapCut(threshold, template_flux) ==
    IF threshold.t = "none" THEN Bool(TRUE) ELSE Ge(template_flux, threshold)

\* where evaluate left and what it returned or raised
Leave(where, value) == [pc |-> where, result |-> value]

\* a faulty variant: flux_ext upside down
FeaturesInverted(p, psf_trace) ==
    [flux_ext |-> Div(p.psfFlux, p.apFlux),
     ellip_ext |-> Sub(ellipticity(p.ixx, p.iyy, p.ixy),
                       ellipticity(p.ixxPSF, p.iyyPSF, p.ixyPSF)),
     i_ext |-> Div(Add(p.ixx, p.iyy), psf_trace),
     temp_sci_flux_ratio |-> Div(p.templateFlux, p.scienceFlux)]

\* the engineered extendedness features, in the order they are computed
Features(p, psf_trace) ==
    [flux_ext |-> Div(p.apFlux, p.psfFlux),
     ellip_ext |-> Sub(ellipticity(p.ixx, p.iyy, p.ixy),
                       ellipticity(p.ixxPSF, p.iyyPSF, p.ixyPSF)),
     i_ext |-> Div(Add(p.ixx, p.iyy), psf_trace),
     temp_sci_flux_ratio |-> Div(p.templateFlux, p.scienceFlux)]

\* a faulty variant: the moving-object cut left out
CutsWithoutMovingObject(p, th, psf_trace) ==
    LET f == Features(p, psf_trace)
        raised == FirstExc(<<f.flux_ext, f.ellip_ext, f.i_ext, f.temp_sci_flux_ratio>>)
        ext == ExtendednessCut(f.flux_ext, f.i_ext, f.ellip_ext, th)
        threshold == BandThreshold(p.band, th)
        cap == BandCapCut(threshold, p.templateFlux)
    IN  IF IsExc(raised) THEN Leave("raise", raised)
        ELSE IF IsExc(ext) THEN Leave("raise", ext)
        ELSE IF Truthy(ext) THEN Leave("extendedness", PyNone)
        ELSE IF IsExc(threshold) THEN Leave("raise", threshold)
        ELSE IF IsExc(cap) THEN Leave("raise", cap)
        ELSE IF Truthy(cap) THEN Leave("band_cap", PyNone)
        ELSE Leave("pass",
                   [t |-> "dict",
                    d |-> [snr |-> p.snr, flux_ext |-> f.flux_ext, i_ext |-> f.i_ext,
                           ellip_ext |-> f.ellip_ext,
                           temp_sci_flux_ratio |-> f.temp_sci_flux_ratio]])

\* from the engineered features on: the three cuts and the returned dict
Cuts(p, th, psf_trace) ==
    LET f == Features(p, psf_trace)
        raised == FirstExc(<<f.flux_ext, f.ellip_ext, f.i_ext, f.temp_sci_flux_ratio>>)
        ext == ExtendednessCut(f.flux_ext, f.i_ext, f.ellip_ext, th)
        moving == MovingObjectCut(f.temp_sci_flux_ratio, th)
        threshold == BandThreshold(p.band, th)
        cap == BandCapCut(threshold, p.templateFlux)
    IN  IF IsExc(raised) THEN Leave("raise", raised)
        ELSE IF IsExc(ext) THEN Leave("raise", ext)
        ELSE IF Truthy(ext) THEN Leave("extendedness", PyNone)
        ELSE IF IsExc(moving) THEN Leave("raise", moving)
        ELSE IF Truthy(moving) THEN Leave("moving_object", PyNone)
        ELSE IF IsExc(threshold) THEN Leave("raise", threshold)
        ELSE IF IsExc(cap) THEN Leave("raise", cap)
        ELSE IF Truthy(cap) THEN Leave("band_cap", PyNone)
        ELSE Leave("pass",
                   [t |-> "dict",
                    d |-> [snr |-> p.snr, flux_ext |-> f.flux_ext, i_ext |-> f.i_ext,
                           ellip_ext |-> f.ellip_ext,
                           temp_sci_flux_ratio |-> f.temp_sci_flux_ratio]])

\* from the quality cuts to the degeneracy guard
Gate(p, th) ==
    LET pos == all_pos(p.psfFlux, p.apFlux, p.scienceFlux)
        neg == all_neg(p.psfFlux, p.apFlux, p.scienceFlux)
        cuts == QualityCuts(p, th, pos, neg)
        psf_trace == Add(p.ixxPSF, p.iyyPSF)
    IN  IF IsExc(pos) THEN Leave("raise", pos)
        ELSE IF IsExc(neg) THEN Leave("raise", neg)
        ELSE IF IsExc(FirstExc(cuts)) THEN Leave("raise", FirstExc(cuts))
        ELSE IF PyAny(cuts) THEN Leave("quality", PyNone)
        ELSE IF ZeroFlux(p.psfFlux, p.scienceFlux) THEN Leave("zero_flux", PyNone)
        ELSE IF IsExc(psf_trace) THEN Leave("raise", psf_trace)
        ELSE IF EqZero(psf_trace) THEN Leave("psf_trace", PyNone)
        ELSE Cuts(p, th, psf_trace)

evaluate(p, th) ==
    LET reads == FirstExc([i \in 1..Len(ReadKeys) |-> GetItem(p, ReadKeys[i])])
    IN  IF IsExc(reads) THEN Leave("raise", reads) ELSE Gate(p, th)

\* the steps of evaluate, each on its own: "ok" when the step lets the alert
\* through, "reject" when it returns None, "raise" when it raises
Steps == <<"quality", "guard", "features", "moving_object", "band_cap">>

StepOutcome(step, p, th) ==
    LET Outcome(x) == IF IsExc(x) THEN "raise" ELSE IF Truthy(x) THEN "reject" ELSE "ok"
        psf_trace == Add(p.ixxPSF, p.iyyPSF)
    IN  CASE step = "quality" ->
                LET pos == all_pos(p.psfFlux, p.apFlux, p.scienceFlux)
                    neg == all_neg(p.psfFlux, p.apFlux, p.scienceFlux)
                    cuts == QualityCuts(p, th, pos, neg)
                IN  IF IsExc(pos) \/ IsExc(neg) \/ IsExc(FirstExc(cuts)) THEN "raise"
                    ELSE IF PyAny(cuts) THEN "reject" ELSE "ok"
          [] step = "guard" ->
                IF ZeroFlux(p.psfFlux, p.scienceFlux) THEN "reject"
                ELSE Outcome(IF IsExc(psf_trace) THEN psf_trace ELSE Bool(EqZero(psf_trace)))
          [] step = "features" ->
                LET f == Features(p, psf_trace)
                    raised == FirstExc(<<f.flux_ext, f.ellip_ext, f.i_ext, f.temp_sci_flux_ratio>>)
                IN  IF IsExc(raised) THEN "raise"
                    ELSE Outcome(ExtendednessCut(f.flux_ext, f.i_ext, f.ellip_ext, th))
          [] step = "moving_object" ->
                LET temp_sci_flux_ratio == Div(p.templateFlux, p.scienceFlux)
                IN  IF IsExc(temp_sci_flux_ratio) THEN "raise"
                    ELSE Outcome(MovingObjectCut(temp_sci_flux_ratio, th))
          [] step = "band_cap" ->
                LET threshold == BandThreshold(p.band, th)
                IN  IF IsExc(threshold) THEN "raise"
                    ELSE Outcome(BandCapCut(threshold, p.templateFlux))

-----------------------------------------------------------------------------
(* the inputs *)

\* fluxes range over -MaxFlux..MaxFlux, the moments of the source over
\* -1..MaxMoment, and those of the PSF over -MaxPsfMoment..MaxPsfMoment
MaxFlux == 2

MaxMoment == 2

MaxPsfMoment == 1

FluxVals == {Int2Num(n) : n \in -MaxFlux..MaxFlux}

MomentVals == {Int2Num(n) : n \in -1..MaxMoment}

PsfMomentVals == {Int2Num(n) : n \in -MaxPsfMoment..MaxPsfMoment}

PsfCrossMomentVals == {Int2Num(n) : n \in 0..MaxPsfMoment}

\* on, above and below the two snr floors
SnrVals == {thresholds.snr, InlineThresholds.snr, RAdd(InlineThresholds.snr, Int2Num(1))}

\* an snr above both floors
HighSnr == RAdd(InlineThresholds.snr, Int2Num(1))

KnownBands == DOMAIN BAND_FLUX_THRESHOLDS

\* a tenth below, on and a tenth above the band's cap in either file
NearCap(band) ==
    {RAdd(th.flux_caps[band], Rat(k, 10)) : th \in {InlineThresholds, thresholds}, k \in -1..1}

\* a dict with every key, well typed: shape is <<ixx, iyy, ixy, ixxPSF, iyyPSF,
\* ixyPSF>> and flags is the set of the quality flags that are set
Alert(psf, ap, sci, tmpl, snr, band, shape, flags) ==
    [k \in Keys |->
        CASE k = "psfFlux" -> psf
          [] k = "apFlux" -> ap
          [] k = "scienceFlux" -> sci
          [] k = "templateFlux" -> tmpl
          [] k = "snr" -> snr
          [] k = "band" -> Str(band)
          [] k = "ixx" -> shape[1]
          [] k = "iyy" -> shape[2]
          [] k = "ixy" -> shape[3]
          [] k = "ixxPSF" -> shape[4]
          [] k = "iyyPSF" -> shape[5]
          [] k = "ixyPSF" -> shape[6]
          [] OTHER -> Bool(k \in flags)]

Shape(ixx, iyy, ixy, ixxPSF, iyyPSF, ixyPSF) ==
    <<Int2Num(ixx), Int2Num(iyy), Int2Num(ixy), Int2Num(ixxPSF), Int2Num(iyyPSF), Int2Num(ixyPSF)>>

\* a source twice as wide as the PSF and elongated, and the same over a PSF of
\* trace zero
ExtendedShape == Shape(2, 2, 1, 1, 1, 0)

ZeroTraceShape == Shape(2, 2, 1, 1, -1, 0)

\* the spec's end-to-end example
ExampleAlert ==
    Alert(Int2Num(100), Int2Num(200), Int2Num(500), Int2Num(200), Int2Num(20), "r",
          Shape(5, 3, 1, 2, 2, 0), {})

\* photometry that passes both files' cuts: <<psf, ap, science, template>>
BrightPhotometry == <<Int2Num(1), Int2Num(2), Int2Num(2), Int2Num(2)>>

NegativePhotometry == <<Int2Num(-1), Int2Num(-2), Int2Num(-2), Int2Num(-2)>>

Photometries == {BrightPhotometry, NegativePhotometry}

PhotometryAlert(f, snr, band, shape, flags) == Alert(f[1], f[2], f[3], f[4], snr, band, shape, flags)

\* every flux, in band r and in a band no file knows
FluxInputs(p) ==
    \E psf, ap, sci \in FluxVals, band \in {"r", "x"} :
        \E tmpl \in FluxVals \cup (IF band \in KnownBands THEN NearCap(band) ELSE {}) :
            p = Alert(psf, ap, sci, tmpl, HighSnr, band, ExtendedShape, {})

\* every band, with the template flux around the band's caps
BandInputs(p) ==
    \E band \in KnownBands \cup {"x", ""}, f \in Photometries, snr \in SnrVals :
        \E tmpl \in FluxVals \cup UNION {NearCap(b) : b \in KnownBands} :
            p = Alert(f[1], f[2], f[3], tmpl, snr, band, ExtendedShape, {})

\* every shape
ShapeInputs(p) ==
    \E ixx, iyy, ixy \in MomentVals, ixxPSF, iyyPSF \in PsfMomentVals,
       ixyPSF \in PsfCrossMomentVals, f \in Photometries :
        p = PhotometryAlert(f, HighSnr, "r", <<ixx, iyy, ixy, ixxPSF, iyyPSF, ixyPSF>>, {})

\* every setting of the eight flags
FlagInputs(p) ==
    \E flags \in SUBSET FlagSet, f \in Photometries,
       shape \in {ExtendedShape, ZeroTraceShape}, snr \in SnrVals :
        p = PhotometryAlert(f, snr, "r", shape, flags)

\* values of a type the field is not meant to hold
WrongValues(k) ==
    CASE k = "band" -> {Int2Num(5), PyNone, PyList}
      [] k \in FlagSet ->
            {Int2Num(1), Int2Num(0), Str("yes"), Str(""), PyNone}
      [] OTHER -> {Str("abc"), PyNone}

\* well-typed dicts the malformed ones are made from
BaseAlerts ==
    {ExampleAlert,
     [ExampleAlert EXCEPT !["pixelFlags_saturated"] = Bool(TRUE)],
     [ExampleAlert EXCEPT !["snr"] = Int2Num(3)],
     [ExampleAlert EXCEPT !["psfFlux"] = Int2Num(0)],
     [ExampleAlert EXCEPT !["psfFlux"] = Int2Num(-100)],
     [ExampleAlert EXCEPT !["ixx"] = Int2Num(-3)],
     [ExampleAlert EXCEPT !["ixxPSF"] = Int2Num(-2)],
     [ExampleAlert EXCEPT !["templateFlux"] = Int2Num(0)]}

Without(p, k) == [j \in DOMAIN p \ {k} |-> p[j]]

\* a key missing or a value of the wrong type
MalformedInputs(p) ==
    \E base \in BaseAlerts, k \in Keys :
        \/ p = Without(base, k)
        \/ \E w \in WrongValues(k) : p = [base EXCEPT ![k] = w]

\* a key missing and another value of the wrong type, in the spec's example
\* and in the same with a flag set
TwiceMalformedInputs(p) ==
    \E base \in {ExampleAlert, [ExampleAlert EXCEPT !["pixelFlags_saturated"] = Bool(TRUE)]},
       k \in Keys :
        \E j \in Keys \ {k} : \E w \in WrongValues(j) : p = [Without(base, k) EXCEPT ![j] = w]

Pending == [t |-> "pending"]

WellTyped(p) ==
    /\ DOMAIN p = Keys
    /\ \A k \in Keys :
        p[k].t = (CASE k = "band" -> "str"
                    [] k \in FlagSet -> "bool"
                    [] OTHER -> "num")

-----------------------------------------------------------------------------
(* the caller: one alert, handed once to evaluate of either file *)

Init ==
    /\ \/ FluxInputs(props)
       \/ BandInputs(props)
       \/ ShapeInputs(props)
       \/ FlagInputs(props)
       \/ MalformedInputs(props)
       \/ TwiceMalformedInputs(props)
       \/ props \in BaseAlerts
    /\ moments = <<>>
    /\ callee = ""
    /\ pc = "start"
    /\ result = Pending

\* one call of evaluate, against the thresholds of the file it is taken from
Run(name, th) ==
    /\ pc = "start"
    /\ callee' = name
    /\ LET out == evaluate(props, th)
       IN  pc' = out.pc /\ result' = out.result
    /\ UNCHANGED <<props, moments>>

\* evaluate of src/filters/extendedness.py
EvaluateFilters == Run("filters.extendedness.evaluate", InlineThresholds)

\* evaluate of src/src/lantern/filters/extendedness.py
EvaluateLantern == Run("lantern.filters.extendedness.evaluate", thresholds)

Next == EvaluateFilters \/ EvaluateLantern

Spec == Init /\ [][Next]_vars

-----------------------------------------------------------------------------
(* the helper on its own: three numbers handed once to _ellipticity *)

ArgVals == {Int2Num(n) : n \in -(MaxMoment + 1)..(MaxMoment + 1)}

InitEllipticity ==
    /\ props = <<>>
    /\ moments \in ArgVals \X ArgVals \X ArgVals
    /\ callee = ""
    /\ pc = "start"
    /\ result = Pending

CallEllipticity ==
    /\ pc = "start"
    /\ callee' = "_ellipticity"
    /\ pc' = "return"
    /\ result' = ellipticity(moments[1], moments[2], moments[3])
    /\ UNCHANGED <<props, moments>>

NextEllipticity == CallEllipticity

SpecEllipticity == InitEllipticity /\ [][NextEllipticity]_vars

-----------------------------------------------------------------------------
(* what the properties below speak of *)

Done == pc # "start"

\* the thresholds of the file whose evaluate ran
Th == IF callee = "lantern.filters.extendedness.evaluate" THEN thresholds ELSE InlineThresholds

Passed == Done /\ result.t = "dict"

Rejected == Done /\ result.t = "none"

Raised == Done /\ result.t = "exc"

\* pass, reject or raise
Kind(out) == CASE out.result.t = "dict" -> "pass"
               [] out.result.t = "none" -> "reject"
               [] out.result.t = "exc" -> "raise"

AllPositive(p) == p.psfFlux.p > 0 /\ p.apFlux.p > 0 /\ p.scienceFlux.p > 0

AllNegative(p) == p.psfFlux.p < 0 /\ p.apFlux.p < 0 /\ p.scienceFlux.p < 0

KnownBand(p) == p.band.t = "str" /\ p.band.s \in DOMAIN Th.flux_caps

\* C1: a well-typed input with a quality flag set is rejected, whatever the
\* fluxes, the snr, the band and the moments are
C1_FlagRejects ==
    (Done /\ WellTyped(props) /\ \E k \in FlagSet : props[k].b)
        => (result.t = "none" /\ pc = "quality")

C1_Witness ==
    /\ props = [ExampleAlert EXCEPT !["pixelFlags_saturated"] = Bool(TRUE)]
    /\ Rejected

\* C2: a well-typed input whose three fluxes are neither all positive nor all
\* negative is rejected; one whose fluxes are all positive or all negative,
\* with no flag set and the snr above the floor, gets past the quality cuts
C2_FluxSign ==
    (Done /\ WellTyped(props)) =>
        /\ ~(AllPositive(props) \/ AllNegative(props)) => (result.t = "none" /\ pc = "quality")
        /\ ( /\ AllPositive(props) \/ AllNegative(props)
             /\ \A k \in FlagSet : ~props[k].b
             /\ RLess(Th.snr, props.snr) ) => pc # "quality"

C2_Witness == Passed /\ WellTyped(props) /\ AllNegative(props)

\* C3: a well-typed input whose band is no key of the cap table is rejected,
\* never passed and never an error, also when every other cut lets it through
C3_UnknownBandRejects ==
    (Done /\ WellTyped(props) /\ ~KnownBand(props)) => result.t = "none"

C3_Witness == Done /\ WellTyped(props) /\ ~KnownBand(props) /\ pc = "band_cap"

-----------------------------------------------------------------------------
(* C4: the template flux against the band's cap *)

\* the input with another template flux, run through the same file
WithTemplate(t) == evaluate([props EXCEPT !["templateFlux"] = t], Th)

BrighterTemplates ==
    {t \in FluxVals \cup NearCap(props.band.s) : RLess(props.templateFlux, t)}

\* every brighter template flux keeps the pass below the cap and loses it from
\* the cap on
FlipsOnlyAtCap ==
    \A t \in BrighterTemplates :
        Kind(WithTemplate(t)) = IF RLess(t, Th.flux_caps[props.band.s]) THEN "pass" ELSE "reject"

\* C4 as claimed: a template flux on or above the cap is rejected, and a pass
\* stays a pass under every increase of the template flux below the cap
C4_AsClaimed ==
    (Done /\ WellTyped(props) /\ KnownBand(props)) =>
        /\ RLeq(Th.flux_caps[props.band.s], props.templateFlux) => result.t = "none"
        /\ Passed => FlipsOnlyAtCap

\* C4 amended: the same, for a pass with a positive science flux
C4_FlipsOnlyAtCapWhenPositive ==
    (Done /\ WellTyped(props) /\ KnownBand(props)) =>
        /\ RLeq(Th.flux_caps[props.band.s], props.templateFlux) => result.t = "none"
        /\ (Passed /\ props.scienceFlux.p > 0) => FlipsOnlyAtCap

C4_Witness ==
    /\ Done /\ WellTyped(props) /\ KnownBand(props)
    /\ props.templateFlux = Th.flux_caps[props.band.s]
    /\ pc = "band_cap"
    /\ Kind(WithTemplate(RSub(props.templateFlux, Rat(1, 10)))) = "pass"

-----------------------------------------------------------------------------
\* C5: a dict that lacks a key makes evaluate raise, whatever it holds
C5_MissingKeyRaises ==
    (Done /\ DOMAIN props # Keys) => result.t = "exc"

C5_Witness ==
    /\ Raised
    /\ "pixelFlags_suspect" \notin DOMAIN props
    /\ props["pixelFlags_saturated"] = Bool(TRUE)

\* C6 as claimed: a dict with every key and a value of the wrong type makes
\* evaluate raise
C6_AsClaimed ==
    (Done /\ DOMAIN props = Keys /\ ~WellTyped(props)) => result.t = "exc"

-----------------------------------------------------------------------------
(* C7: the helper *)

\* v is sqrt(rad) / denom, told by its sign and its square
IsRootOver(v, rad, denom) ==
    /\ v.t \in {"num", "root"}
    /\ (IF v.t = "root" THEN v.sgn ELSE Sign(v.p)) = Sign(rad.p) * Sign(denom.p)
    /\ (IF v.t = "root" THEN v.r ELSE RMul(v, v)) = RDiv(rad, RMul(denom, denom))

\* C7: _ellipticity returns 0.0 when ixx + iyy is 0, whatever ixy is, and
\* sqrt((ixx - iyy)^2 + 4*ixy^2) / (ixx + iyy) otherwise; it never raises
C7_Ellipticity ==
    (Done /\ callee = "_ellipticity") =>
        LET ixx == moments[1]
            iyy == moments[2]
            ixy == moments[3]
            trace == RAdd(ixx, iyy)
            rad == RAdd(RMul(RSub(ixx, iyy), RSub(ixx, iyy)),
                        RMul(Int2Num(4), RMul(ixy, ixy)))
        IN  IF trace.p = 0 THEN result = Int2Num(0) ELSE IsRootOver(result, rad, trace)

C7_Witness ==
    /\ Done /\ callee = "_ellipticity"
    /\ RAdd(moments[1], moments[2]).p = 0
    /\ moments[1].p # 0 /\ moments[3].p # 0
    /\ result = Int2Num(0)

-----------------------------------------------------------------------------
\* C8: a pass returns exactly the five features, each the quotient or the
\* difference the input gives, and the snr as handed in; the end-to-end example
\* passes the inline thresholds with flux_ext 2, i_ext 2, ratio 0.4 and snr 20
C8_Features ==
    /\ Passed =>
        LET f == result.d
        IN  /\ DOMAIN f = {"snr", "flux_ext", "i_ext", "ellip_ext", "temp_sci_flux_ratio"}
            /\ f.snr = props.snr
            /\ f.flux_ext.t = "num" /\ RMul(f.flux_ext, props.psfFlux) = props.apFlux
            /\ f.i_ext.t = "num"
            /\ RMul(f.i_ext, RAdd(props.ixxPSF, props.iyyPSF)) = RAdd(props.ixx, props.iyy)
            /\ f.temp_sci_flux_ratio.t = "num"
            /\ RMul(f.temp_sci_flux_ratio, props.scienceFlux) = props.templateFlux
            /\ f.ellip_ext = Sub(ellipticity(props.ixx, props.iyy, props.ixy),
                                 ellipticity(props.ixxPSF, props.iyyPSF, props.ixyPSF))
    /\ (Done /\ props = ExampleAlert /\ callee = "filters.extendedness.evaluate") =>
        /\ Passed
        /\ result.d.flux_ext = Int2Num(2)
        /\ result.d.i_ext = Int2Num(2)
        /\ result.d.temp_sci_flux_ratio = Rat(4, 10)
        /\ result.d.snr = Int2Num(20)
        /\ result.d.ellip_ext = [t |-> "root", sgn |-> 1, r |-> Rat(1, 8)]

C8_Witness == Passed /\ props = ExampleAlert /\ callee = "filters.extendedness.evaluate"

-----------------------------------------------------------------------------
(* C9: the order of the steps *)

\* the sequences that hold each element of S once
RECURSIVE Arrangements(_)
Arrangements(S) ==
    IF S = {} THEN {<<>>}
    ELSE UNION {{<<x>> \o rest : rest \in Arrangements(S \ {x})} : x \in S}

\* the orders the five steps can be run in, each a sequence of indices into Steps
Orders == Arrangements(1..Len(Steps))

\* the first outcome that is not "ok" when the steps run in order o from the
\* i-th on, and "pass" when every step lets the alert through
RECURSIVE RunFrom(_, _, _)
RunFrom(o, i, outcome) ==
    IF i > Len(Steps) THEN "pass"
    ELSE IF outcome[o[i]] # "ok" THEN outcome[o[i]]
    ELSE RunFrom(o, i + 1, outcome)

StepOutcomes ==
    <<StepOutcome(Steps[1], props, Th), StepOutcome(Steps[2], props, Th),
      StepOutcome(Steps[3], props, Th), StepOutcome(Steps[4], props, Th),
      StepOutcome(Steps[5], props, Th)>>

\* the position of step i in order o
Position(o, i) == CHOOSE k \in 1..Len(Steps) : o[k] = i

\* the degeneracy guard (step 2) runs before the two steps that divide
GuardFirst(o) == Position(o, 2) < Position(o, 3) /\ Position(o, 2) < Position(o, 4)

GuardFirstOrders == UNION {IF GuardFirst(o) THEN {o} ELSE {} : o \in Orders}

\* evaluate passes or rejects, passes exactly when every step lets the alert
\* through, and every order of os gives the outcome evaluate gave
SameOutcomeIn(os) ==
    \E outcome \in {StepOutcomes} :
        /\ result.t \in {"dict", "none"}
        /\ Passed <=> \A i \in 1..Len(Steps) : outcome[i] = "ok"
        /\ \A o \in os : RunFrom(o, 1, outcome) = Kind([result |-> result])

\* C9 as claimed: every order of the steps gives the outcome evaluate gives,
\* which is a pass exactly when every step lets the alert through
C9_AsClaimed ==
    (Done /\ WellTyped(props)) =>
        SameOutcomeIn(Orders)

\* C9 amended: the same for the orders that keep the degeneracy guard before
\* the feature computation and the moving-object cut
C9_OrderWithGuardFirst ==
    (Done /\ WellTyped(props)) =>
        SameOutcomeIn(GuardFirstOrders)

C9_Witness ==
    /\ Done /\ WellTyped(props) /\ pc = "psf_trace"
    /\ StepOutcomes[1] = "ok"
    /\ StepOutcomes[3] = "raise"

-----------------------------------------------------------------------------
\* C10: what gets past the quality cuts has a psfFlux and a scienceFlux other
\* than 0, so the zero-flux test never rejects and no division is by zero
C10_ZeroFluxNeverRejects ==
    Done =>
        /\ pc # "zero_flux"
        /\ result # Exc("ZeroDivisionError")
        /\ (WellTyped(props) /\ pc # "quality") =>
                /\ props.psfFlux.p # 0 /\ props.scienceFlux.p # 0
                /\ pc \in {"psf_trace", "extendedness", "moving_object", "band_cap", "pass"}

C10_Witness ==
    /\ Done /\ WellTyped(props) /\ pc = "psf_trace"
    /\ AllNegative(props)
    /\ RAdd(props.ixxPSF, props.iyyPSF).p = 0

=============================================================================
